---- MODULE Spec2Model ----
(***************************************************************************)
(* Model of the VORTEX anomaly scoring and explanation pipeline:           *)
(*   src/src/model_train.py   model_training_pipeline and its stages       *)
(*   src/src/xai_explainer.py load_data_and_model, generate_shap_          *)
(*                            explanations, xai_pipeline                   *)
(* The two pipelines share the processed-data file and the model file.     *)
(* The fitted IsolationForest and the SHAP TreeExplainer are libraries:    *)
(* their numeric outputs (decision scores, SHAP values, expected value)    *)
(* are drawn from small sets.                                              *)
(***************************************************************************)
EXTENDS Integers, Sequences, FiniteSets, TLC

\* ---------------------------------------------------------------- bounds
\* Largest number of rows of the processed feature table.
MaxRows == 2
\* Number of leading entries of the feature list that the model tracks.
NumFeatures == 2

\* ------------------------------------------------------------- constants
\* The missing value of a cell (numpy.nan); never compared as a number.
NaN == -1
\* event_id=None, the default of generate_shap_explanations.
None == 0
\* An event_id argument that is neither str nor int (rejected at line 131).
InvalidType == -2

AllModelFeatures ==
    << "sensitive_file_access", "external_ip_connection", "is_weekend",
       "is_off_hours", "sin_hour", "cos_hour", "file_access_count_zscore",
       "upload_size_mb_zscore", "total_files_24h_zscore",
       "avg_upload_24h_zscore", "event_count_24h_zscore" >>

MODEL_FEATURES == SubSeq(AllModelFeatures, 1, NumFeatures)

FeatureSet == { MODEL_FEATURES[k] : k \in 1..NumFeatures }

\* Columns load_data_and_model requires (xai_explainer.py line 83).
required_cols == FeatureSet \cup {"event_id", "anomaly_score"}

\* Columns of a complete table; the label column is read by training only.
AllCols == required_cols \cup {"anomaly_flag_truth"}

\* Columns whose cells the model carries (label values are drawn when read).
CellCols == required_cols

\* ----------------------------------------------------------- value sets
\* Present values of a feature cell (even, so that a median is integral).
FeatureValues == {0, 2}
\* decision_function outputs: lower = more anomalous.
RawScores == {-1, 0}
\* anomaly_score values found in a table scored by an earlier run.
Scores == {0, 1}
\* SHAP values of one feature, and the explainer's expected value.
Contributions == {-1, 0, 1}
ExpectedValues == {5}
\* Contents of the model file: no file, a pickled IsolationForest, or a
\* pickled object of another class.
ModelFiles == {"absent", "IsolationForest", "Other"}
NoModel == "None"

\* ------------------------------------------------------------ data frames
\* A table is [exists, cols, rows]; a row maps each carried column to a cell.
NoTable == [exists |-> FALSE, cols |-> {}, rows |-> << >>]

Abs(x) == IF x < 0 THEN 0 - x ELSE x

SetMin(S) == CHOOSE x \in S : \A y \in S : x <= y

\* The feature vectors of the initial tables: every feature holds the same
\* value, or one feature of an all-zero vector is missing.
FeatureVectors ==
    { [f \in FeatureSet |-> v] : v \in FeatureValues }
    \cup { [f \in FeatureSet |-> IF f = g THEN NaN ELSE 0] : g \in FeatureSet }

\* The rows a table with columns cols can hold at position i: event ids are
\* the unique row identifiers the feature engineer assigns.
RowSet(cols, i) ==
    { [c \in cols \cap CellCols |->
          IF c = "event_id" THEN i
          ELSE IF c = "anomaly_score" THEN s
          ELSE fv[c]] : s \in Scores, fv \in FeatureVectors }

RECURSIVE RowSeqs(_, _)
RowSeqs(cols, n) ==
    IF n = 0 THEN { << >> }
    ELSE { Append(t, r) : t \in RowSeqs(cols, n - 1), r \in RowSet(cols, n) }

\* The column sets of the initial tables: complete, or lacking one column.
ColumnSets == {AllCols} \cup { AllCols \ {c} : c \in AllCols }

TablesOver(cols) ==
    { [exists |-> TRUE, cols |-> cols, rows |-> rows] :
        rows \in UNION { RowSeqs(cols, n) : n \in 0..MaxRows } }

Tables == UNION { TablesOver(cols) : cols \in ColumnSets }

\* df[MODEL_FEATURES].copy(): the feature columns of every row.
FeatureFrame(rows) ==
    [i \in 1..Len(rows) |-> [f \in FeatureSet |-> rows[i][f]]]

\* X.fillna(fill): fill maps each column to its fill value; a column whose
\* fill value is itself missing keeps its missing cells.
fillna(X, fill) ==
    [i \in 1..Len(X) |->
        [f \in FeatureSet |-> IF X[i][f] = NaN THEN fill[f] ELSE X[i][f]]]

IsPresent(v) == v # NaN

InsertAsc(x, s) ==
    LET k == Cardinality({ i \in 1..Len(s) : s[i] <= x })
    IN  SubSeq(s, 1, k) \o << x >> \o SubSeq(s, k + 1, Len(s))

RECURSIVE SortAsc(_)
SortAsc(s) ==
    IF s = << >> THEN << >>
    ELSE InsertAsc(s[Len(s)], SortAsc(SubSeq(s, 1, Len(s) - 1)))

\* Series.median(): missing cells are skipped; the mean of the two middle
\* values for an even count; missing when the column has no value.
median(vals) ==
    LET s == SortAsc(SelectSeq(vals, IsPresent))
        n == Len(s)
    IN  IF n = 0 THEN NaN
        ELSE IF n % 2 = 1 THEN s[(n + 1) \div 2]
        ELSE (s[n \div 2] + s[n \div 2 + 1]) \div 2

\* X.median(): the per-column medians.
Medians(X) ==
    [f \in FeatureSet |-> median([i \in 1..Len(X) |-> X[i][f]])]

\* ------------------------------------------------------------------ state
VARIABLES
    dataFile,        \* the file at PROCESSED_DATA_FILE
    modelFile,       \* the file at MODEL_FILE
    tpc,             \* position of model_training_pipeline
    df_full,         \* training: the table read by load_and_prepare_data
    X,               \* training: the feature matrix after fillna(0)
    model,           \* training: the fitted model object
    anomaly_scores,  \* training: decision_function(X), one raw score per row
    auc_scores,      \* training: the scores handed to roc_auc_score
    xpc,             \* position of xai_pipeline
    paths,           \* xai: whether each configured path lies in its allowed directory
    filesRead,       \* xai: the files load_data_and_model has read
    df,              \* xai: the table returned by load_data_and_model
    loaded_model,    \* xai: the model returned by load_data_and_model
    event_id,        \* xai: the event_id argument
    X_filled,        \* xai: X after the median fill
    X_explain,       \* xai: the feature vector handed to explainer.shap_values
    explained_row,   \* xai: index of the row X_explain was taken from
    result           \* xai: the value generate_shap_explanations returned

fileVars == << dataFile, modelFile >>
trainVars == << tpc, df_full, X, model, anomaly_scores, auc_scores >>
xaiVars == << xpc, paths, filesRead, df, loaded_model, event_id, X_filled,
              X_explain, explained_row, result >>
vars == << dataFile, modelFile, tpc, df_full, X, model, anomaly_scores,
           auc_scores, xpc, paths, filesRead, df, loaded_model, event_id,
           X_filled, X_explain, explained_row, result >>

NoVector == [f \in FeatureSet |-> NaN]
NoResult == [ok |-> FALSE, event_id |-> "", base_value |-> 0, explanation |-> << >>]
NoPaths == [data |-> TRUE, model |-> TRUE]

\* Positions at which model_training_pipeline has ended.
TrainEnded == {"returned", "crashed_load", "crashed_fit", "crashed_eval", "done"}

Init ==
    /\ dataFile \in Tables \cup {NoTable}
    /\ modelFile \in ModelFiles
    /\ tpc = "idle"
    /\ df_full = NoTable
    /\ X = << >>
    /\ model = NoModel
    /\ anomaly_scores = << >>
    /\ auc_scores = << >>
    /\ xpc = "idle"
    /\ paths = NoPaths
    /\ filesRead = {}
    /\ df = NoTable
    /\ loaded_model = NoModel
    /\ event_id = None
    /\ X_filled = << >>
    /\ X_explain = NoVector
    /\ explained_row = 0
    /\ result = NoResult

\* --------------------------------------------------- model_train.py stages
load_and_prepare_data_reindex(file) ==
    IF ~file.exists
    THEN [outcome |-> "none", X |-> << >>, df |-> NoTable]
    ELSE [outcome |-> "ok",
          X |-> [i \in 1..Len(file.rows) |->
                    [f \in FeatureSet |->
                        IF f \in file.cols /\ file.rows[i][f] # NaN
                        THEN file.rows[i][f] ELSE 0]],
          df |-> file]

\* load_and_prepare_data(filepath): (X, y_true, df), (None, None, None) when
\* the file is missing, KeyError when a selected column is missing.
load_and_prepare_data(file) ==
    IF ~file.exists
    THEN [outcome |-> "none", X |-> << >>, df |-> NoTable]
    ELSE IF ~(FeatureSet \subseteq file.cols)
    THEN [outcome |-> "KeyError", X |-> << >>, df |-> NoTable]
    ELSE IF "anomaly_flag_truth" \notin file.cols
    THEN [outcome |-> "KeyError", X |-> << >>, df |-> NoTable]
    ELSE [outcome |-> "ok",
          X |-> fillna(FeatureFrame(file.rows), [f \in FeatureSet |-> 0]),
          df |-> file]

\* model_training_pipeline, lines 140-142.
LoadAndPrepareData ==
    /\ tpc = "idle"
    /\ xpc = "idle"
    /\ LET r == load_and_prepare_data(dataFile)
       IN  /\ tpc' = CASE r.outcome = "none" -> "returned"
                       [] r.outcome = "KeyError" -> "crashed_load"
                       [] OTHER -> "loaded"
           /\ X' = r.X
           /\ df_full' = r.df
    /\ UNCHANGED << model, anomaly_scores, auc_scores >>
    /\ UNCHANGED fileVars
    /\ UNCHANGED xaiVars

\* train_isolation_forest(X): IsolationForest.fit rejects a matrix with no
\* rows (ValueError); otherwise the fitted model is returned.
train_isolation_forest(Xm) ==
    IF Len(Xm) = 0 THEN NoModel ELSE "IsolationForest"

\* model_training_pipeline, line 145.
TrainIsolationForest ==
    /\ tpc = "loaded"
    /\ model' = train_isolation_forest(X)
    /\ tpc' = IF model' = NoModel THEN "crashed_fit" ELSE "fitted"
    /\ UNCHANGED << df_full, X, anomaly_scores, auc_scores >>
    /\ UNCHANGED fileVars
    /\ UNCHANGED xaiVars

\* The negation of a score vector (unary minus on the numpy array).
Negate(scores) == [i \in 1..Len(scores) |-> 0 - scores[i]]

\* evaluate_model, line 104: the scores roc_auc_score ranks.
AucInput(raw) == Negate(raw)

\* model_training_pipeline, line 148: evaluate_model(model, X, y_true).
\* raw is decision_function(X); roc_auc_score and classification_report
\* raise ValueError when y_true holds a single class.
EvaluateModel ==
    /\ tpc = "fitted"
    /\ \E raw \in [1..Len(X) -> RawScores], twoClasses \in BOOLEAN :
          IF twoClasses
          THEN /\ anomaly_scores' = raw
               /\ auc_scores' = AucInput(raw)
               /\ tpc' = "evaluated"
          ELSE /\ tpc' = "crashed_eval"
               /\ UNCHANGED << anomaly_scores, auc_scores >>
    /\ UNCHANGED << df_full, X, model >>
    /\ UNCHANGED fileVars
    /\ UNCHANGED xaiVars

\* save_model(model): joblib.dump(model, MODEL_FILE).
save_model(m) == m

\* model_training_pipeline, line 151.
SaveModel ==
    /\ tpc = "evaluated"
    /\ modelFile' = save_model(model)
    /\ tpc' = "saved"
    /\ UNCHANGED dataFile
    /\ UNCHANGED << df_full, X, model, anomaly_scores, auc_scores >>
    /\ UNCHANGED xaiVars

PersistedScores_raw(raw) == raw

\* Line 155: the persisted score of a raw decision score.
PersistedScores(raw) == Negate(raw)

\* df_full['anomaly_score'] = values: the column is added or replaced.
WithScores(table, values) ==
    [exists |-> TRUE,
     cols |-> table.cols \cup {"anomaly_score"},
     rows |-> [i \in 1..Len(table.rows) |->
                 [c \in (table.cols \cap CellCols) \cup {"anomaly_score"} |->
                     IF c = "anomaly_score" THEN values[i] ELSE table.rows[i][c]]]]

WriteScores_before_save ==
    /\ tpc = "evaluated"
    /\ dataFile' = WithScores(df_full, PersistedScores(anomaly_scores))
    /\ df_full' = dataFile'
    /\ tpc' = "done"
    /\ UNCHANGED modelFile
    /\ UNCHANGED << X, model, anomaly_scores, auc_scores >>
    /\ UNCHANGED xaiVars

\* model_training_pipeline, lines 155-156: the scored table is written back.
WriteScores ==
    /\ tpc = "saved"
    /\ dataFile' = WithScores(df_full, PersistedScores(anomaly_scores))
    /\ df_full' = dataFile'
    /\ tpc' = "done"
    /\ UNCHANGED modelFile
    /\ UNCHANGED << X, model, anomaly_scores, auc_scores >>
    /\ UNCHANGED xaiVars

\* ------------------------------------------------------- xai_explainer.py
validate_file_path_unchecked(inside) == TRUE

\* validate_file_path(file_path, allowed_dir): inside tells whether the
\* resolved path is relative to the allowed directory; TRUE = the path is
\* returned, FALSE = ValueError.
validate_file_path(inside) == inside

LoadFailure(read) == [df |-> NoTable, model |-> NoModel, filesRead |-> read]

\* load_data_and_model(): (df, model) or (None, None); filesRead lists the
\* files whose contents were read on the way.
load_data_and_model(p, dFile, mFile) ==
    IF ~validate_file_path(p.data) \/ ~validate_file_path(p.model)
    THEN LoadFailure({})
    ELSE IF ~dFile.exists THEN LoadFailure({})
    ELSE IF mFile = "absent" THEN LoadFailure({})
    ELSE IF ~(required_cols \subseteq dFile.cols) THEN LoadFailure({"data"})
    ELSE IF mFile # "IsolationForest" THEN LoadFailure({"data", "model"})
    ELSE [df |-> dFile, model |-> mFile, filesRead |-> {"data", "model"}]

\* xai_pipeline, lines 233-236.  The pipelines are separate batch runs: the
\* explanation runs on the files as found or as an ended training run left them.
LoadDataAndModel ==
    /\ xpc = "idle"
    /\ tpc \in TrainEnded \cup {"idle"}
    /\ \E p \in [data : BOOLEAN, model : BOOLEAN] :
          LET r == load_data_and_model(p, dataFile, modelFile)
          IN  /\ paths' = p
              /\ df' = r.df
              /\ loaded_model' = r.model
              /\ filesRead' = r.filesRead
              /\ xpc' = IF r.df.exists /\ r.model # NoModel
                        THEN "loaded" ELSE "load_failed"
    /\ UNCHANGED << event_id, X_filled, X_explain, explained_row, result >>
    /\ UNCHANGED fileVars
    /\ UNCHANGED trainVars

is_increasing_risk_nonpositive(shap_value) == shap_value <= 0

\* Line 190: negative SHAP values indicate increased anomaly risk.
is_increasing_risk(shap_value) == shap_value < 0

\* Lines 188-197: one entry per feature, in MODEL_FEATURES order.
explanation_data(x_explain, shap_values) ==
    [i \in 1..NumFeatures |->
        [feature |-> MODEL_FEATURES[i],
         value_at_risk |-> x_explain[MODEL_FEATURES[i]],
         shap_contribution |-> shap_values[i],
         is_high_risk_contributor |-> is_increasing_risk(shap_values[i])]]

SortKey_signed(entry) == entry.shap_contribution

\* The sort key of line 200.
SortKey(entry) == Abs(entry.shap_contribution)

\* list.sort(key=..., reverse=True) is stable: an entry goes after every
\* entry whose key is at least its own.
InsertDesc(e, s) ==
    LET k == Cardinality({ i \in 1..Len(s) : SortKey(s[i]) >= SortKey(e) })
    IN  SubSeq(s, 1, k) \o << e >> \o SubSeq(s, k + 1, Len(s))

RECURSIVE SortDesc(_)
SortDesc(s) ==
    IF Len(s) = 0 THEN << >>
    ELSE InsertDesc(s[Len(s)], SortDesc(SubSeq(s, 1, Len(s) - 1)))

HighestRiskRows_ascending(rows) ==
    { i \in 1..Len(rows) :
        \A j \in 1..Len(rows) : rows[j]["anomaly_score"] >= rows[i]["anomaly_score"] }

\* Line 163: the rows that df.sort_values(by='anomaly_score',
\* ascending=False).iloc[0] can return.  The default sort kind is quicksort,
\* which is not stable, so any row holding the greatest score can come first.
HighestRiskRows(rows) ==
    { i \in 1..Len(rows) :
        \A j \in 1..Len(rows) : rows[j]["anomaly_score"] <= rows[i]["anomaly_score"] }

\* The choices of the sort for a table (0 when line 163 is not reached or fails).
FirstChoices(table) ==
    IF "anomaly_score" \in table.cols /\ Len(table.rows) > 0
    THEN HighestRiskRows(table.rows) ELSE {0}

\* Line 154 / line 165: the feature vector of the row to explain is taken
\* from df, the table as loaded.
SelectFeatures(table, filled, i) ==
    [f \in FeatureSet |-> table.rows[i][f]]

ExplainFailure(filled) ==
    [result |-> NoResult, X |-> filled, X_explain |-> NoVector, row |-> 0]

\* Lines 169-209 for the row at index i, reported under identifier id.
Explain(table, filled, i, id, shap_values, expected_value) ==
    LET x_explain == SelectFeatures(table, filled, i)
    IN  [result |-> [ok |-> TRUE,
                     event_id |-> ToString(id),
                     base_value |-> expected_value,
                     explanation |-> SortDesc(explanation_data(x_explain, shap_values))],
         X |-> filled,
         X_explain |-> x_explain,
         row |-> i]

\* Lines 147-155: the rows whose event_id equals the argument.
EventData(table, eid) ==
    { i \in 1..Len(table.rows) : table.rows[i]["event_id"] = eid }

ExplainById_fallback(table, filled, eid, shap_values, expected_value) ==
    IF "event_id" \notin table.cols THEN ExplainFailure(filled)
    ELSE IF EventData(table, eid) = {}
    THEN IF Len(table.rows) = 0 THEN ExplainFailure(filled)
         ELSE Explain(table, filled, SetMin(HighestRiskRows(table.rows)),
                      table.rows[SetMin(HighestRiskRows(table.rows))]["event_id"],
                      shap_values, expected_value)
    ELSE Explain(table, filled, SetMin(EventData(table, eid)), eid,
                 shap_values, expected_value)

\* Lines 148-155: the lookup by identifier.
ExplainById(table, filled, eid, shap_values, expected_value) ==
    IF "event_id" \notin table.cols THEN ExplainFailure(filled)
    ELSE IF EventData(table, eid) = {} THEN ExplainFailure(filled)
    ELSE Explain(table, filled, SetMin(EventData(table, eid)), eid,
                 shap_values, expected_value)

\* Lines 157-167: the default, the highest-risk event; first is the row the
\* sort put first.
ExplainHighestRisk(table, filled, first, shap_values, expected_value) ==
    IF "anomaly_score" \notin table.cols THEN ExplainFailure(filled)
    ELSE IF Len(table.rows) = 0 THEN ExplainFailure(filled)
    ELSE IF "event_id" \notin table.cols THEN ExplainFailure(filled)
    ELSE Explain(table, filled, first, table.rows[first]["event_id"],
                 shap_values, expected_value)

\* generate_shap_explanations(df, model, event_id): the returned value (ok =
\* FALSE for None) and the locals X, X_explain.
generate_shap_explanations(table, eid, first, shap_values, expected_value) ==
    IF eid = InvalidType THEN ExplainFailure(<< >>)
    ELSE IF ~(FeatureSet \subseteq table.cols) THEN ExplainFailure(<< >>)
    ELSE LET Xf == FeatureFrame(table.rows)
             filled == fillna(Xf, Medians(Xf))
         IN  IF eid # None
             THEN ExplainById(table, filled, eid, shap_values, expected_value)
             ELSE ExplainHighestRisk(table, filled, first, shap_values, expected_value)

EventIdArgs == {None, InvalidType} \cup (1..(MaxRows + 1))

\* xai_pipeline, lines 239-261.
GenerateShapExplanations ==
    /\ xpc = "loaded"
    /\ \E eid \in EventIdArgs, first \in FirstChoices(df),
          shap_values \in [1..NumFeatures -> Contributions],
          expected_value \in ExpectedValues :
          LET r == generate_shap_explanations(df, eid, first, shap_values, expected_value)
          IN  /\ event_id' = eid
              /\ X_filled' = r.X
              /\ X_explain' = r.X_explain
              /\ explained_row' = r.row
              /\ result' = r.result
              /\ xpc' = IF r.result.ok THEN "explained" ELSE "no_explanation"
    /\ UNCHANGED << paths, filesRead, df, loaded_model >>
    /\ UNCHANGED fileVars
    /\ UNCHANGED trainVars

Next ==
    \/ LoadAndPrepareData
    \/ TrainIsolationForest
    \/ EvaluateModel
    \/ SaveModel
    \/ WriteScores
    \/ LoadDataAndModel
    \/ GenerateShapExplanations

Spec == Init /\ [][Next]_vars

\* ------------------------------------------------------------ properties
ScoreOf(table, i) == table.rows[i]["anomaly_score"]

DefaultExplained == xpc = "explained" /\ event_id = None

\* C1 (as stated): with event_id omitted the explained event is the row with
\* the maximum anomaly_score, and among several rows sharing the maximum it
\* is the first in table order.
C1_FirstOfMaxExplained ==
    DefaultExplained =>
        /\ explained_row \in 1..Len(df.rows)
        /\ \A j \in 1..Len(df.rows) :
              /\ ScoreOf(df, j) <= ScoreOf(df, explained_row)
              /\ ScoreOf(df, j) = ScoreOf(df, explained_row) => explained_row <= j

\* C1 (amended): with event_id omitted the explained event is a row holding
\* the maximum anomaly_score, and the returned event_id is that row's
\* identifier; which of several rows sharing the maximum is not determined.
C1_MaxExplained ==
    DefaultExplained =>
        /\ explained_row \in 1..Len(df.rows)
        /\ \A j \in 1..Len(df.rows) : ScoreOf(df, j) <= ScoreOf(df, explained_row)
        /\ result.event_id = ToString(df.rows[explained_row]["event_id"])

C1_Witness ==
    /\ DefaultExplained
    /\ \E j \in 1..Len(df.rows) :
          j < explained_row /\ ScoreOf(df, j) = ScoreOf(df, explained_row)

FeatureIndex(name) == CHOOSE k \in 1..NumFeatures : MODEL_FEATURES[k] = name

\* C2: a returned explanation lists every feature of MODEL_FEATURES exactly
\* once, in non-increasing order of absolute shap_contribution, entries of
\* equal absolute contribution in MODEL_FEATURES order.
C2_ExplanationOrdered ==
    result.ok =>
        LET e == result.explanation
        IN  /\ Len(e) = NumFeatures
            /\ \A k \in 1..NumFeatures :
                  Cardinality({ i \in 1..Len(e) : e[i].feature = MODEL_FEATURES[k] }) = 1
            /\ \A i, j \in 1..Len(e) :
                  i < j =>
                    /\ Abs(e[i].shap_contribution) >= Abs(e[j].shap_contribution)
                    /\ Abs(e[i].shap_contribution) = Abs(e[j].shap_contribution)
                          => FeatureIndex(e[i].feature) < FeatureIndex(e[j].feature)

C2_Witness ==
    /\ result.ok
    /\ \E i, j \in 1..Len(result.explanation) :
          /\ i < j
          /\ result.explanation[i].shap_contribution = -1
          /\ result.explanation[j].shap_contribution = 1

\* C3: the persisted anomaly_score of every row is the negation of its raw
\* decision score and equals the value the evaluator ranks for AUC, so the
\* persisted order is the reverse of the raw order; the default selection of
\* the explainer takes the greatest persisted score, the least raw score.
C3_ScorePolarity ==
    tpc = "done" =>
        /\ Len(dataFile.rows) = Len(anomaly_scores)
        /\ "anomaly_score" \in dataFile.cols
        /\ \A i \in 1..Len(anomaly_scores) :
              /\ ScoreOf(dataFile, i) = 0 - anomaly_scores[i]
              /\ ScoreOf(dataFile, i) = auc_scores[i]
        /\ \A i, j \in 1..Len(anomaly_scores) :
              (anomaly_scores[i] < anomaly_scores[j])
                  <=> (ScoreOf(dataFile, i) > ScoreOf(dataFile, j))
        /\ DefaultExplained =>
              \A j \in 1..Len(anomaly_scores) :
                  anomaly_scores[explained_row] <= anomaly_scores[j]

C3_Witness ==
    /\ tpc = "done"
    /\ DefaultExplained
    /\ \E j \in 1..Len(anomaly_scores) :
          anomaly_scores[explained_row] < anomaly_scores[j]

ExplainEnded == xpc \in {"explained", "no_explanation"}

\* C4: a call with an event_id that matches no row of the table returns no
\* result; it never returns an explanation record, of the highest-scored
\* event or otherwise.
C4_UnknownEventFails ==
    (ExplainEnded /\ event_id # None /\ EventData(df, event_id) = {}) =>
        /\ ~result.ok
        /\ xpc = "no_explanation"
        /\ result = NoResult

C4_Witness ==
    /\ xpc = "no_explanation"
    /\ event_id = MaxRows + 1
    /\ Len(df.rows) > 0

LacksFeature(file) == file.exists /\ ~(FeatureSet \subseteq file.cols)

\* C5: when the feature table lacks a column of MODEL_FEATURES the training
\* pipeline stops in load_and_prepare_data, before fitting: nothing is
\* fitted, scored or saved and no file is written; the explanation pipeline
\* yields no table, no model and no explanation, and
\* generate_shap_explanations applied to that table returns no result.
C5_MissingFeatureColumnFails ==
    /\ [](LacksFeature(dataFile) =>
            /\ tpc \in {"idle", "crashed_load"}
            /\ model = NoModel
            /\ X = << >>
            /\ anomaly_scores = << >>
            /\ xpc \in {"idle", "load_failed"}
            /\ ~df.exists
            /\ loaded_model = NoModel
            /\ ~result.ok
            /\ \A eid \in EventIdArgs, first \in FirstChoices(dataFile),
                  shap_values \in [1..NumFeatures -> Contributions],
                  expected_value \in ExpectedValues :
                  ~generate_shap_explanations(dataFile, eid, first, shap_values,
                                              expected_value).result.ok)
    /\ [][LacksFeature(dataFile) => (dataFile' = dataFile /\ modelFile' = modelFile)]_vars

C5_Witness ==
    /\ LacksFeature(dataFile)
    /\ tpc = "crashed_load"
    /\ xpc = "load_failed"
    /\ modelFile = "IsolationForest"
    /\ paths.data /\ paths.model

\* C6 (as stated): the feature vector handed to the attribution computation
\* is the selected row after the median fill, on both selection paths.
C6_ExplainedVectorImputed ==
    xpc = "explained" => X_explain = X_filled[explained_row]

\* C7: in a returned explanation an entry is flagged is_high_risk_contributor
\* exactly when its own shap_contribution is strictly negative.
C7_RiskFlagIsNegativeContribution ==
    result.ok =>
        \A i \in 1..Len(result.explanation) :
            result.explanation[i].is_high_risk_contributor
                <=> (result.explanation[i].shap_contribution < 0)

C7_Witness ==
    /\ result.ok
    /\ \E i, j \in 1..Len(result.explanation) :
          /\ result.explanation[i].shap_contribution = 0
          /\ ~result.explanation[i].is_high_risk_contributor
          /\ result.explanation[j].shap_contribution < 0
          /\ result.explanation[j].is_high_risk_contributor

\* C8: load_data_and_model yields a model only if both paths lie in their
\* allowed directories, both files exist, the table has every required
\* column and the loaded object is an IsolationForest; it yields a table and
\* a model together or neither; when a path escapes no file has been read.
C8_LoadAllOrNothing ==
    xpc # "idle" =>
        /\ loaded_model # NoModel =>
              /\ paths.data /\ paths.model
              /\ dataFile.exists
              /\ modelFile # "absent"
              /\ required_cols \subseteq dataFile.cols
              /\ modelFile = "IsolationForest"
              /\ loaded_model = "IsolationForest"
        /\ df.exists <=> (loaded_model # NoModel)
        /\ (~paths.data \/ ~paths.model) => filesRead = {}

C8_Witness ==
    /\ xpc = "load_failed"
    /\ ~paths.model
    /\ paths.data
    /\ dataFile.exists
    /\ required_cols \subseteq dataFile.cols
    /\ modelFile = "IsolationForest"
    /\ filesRead = {}

TrainStoppedEarly == {"returned", "crashed_load", "crashed_fit", "crashed_eval"}

\* C10: in a training run the model file is written only by the step that
\* follows a completed evaluation, which follows fitting, which follows
\* loading; the table file is written only by the step that follows the
\* save of the model; a run that stops earlier writes neither file.
C10_WriteOrder ==
    /\ [][ /\ modelFile' # modelFile => (tpc = "evaluated" /\ tpc' = "saved")
           /\ dataFile' # dataFile =>
                 (tpc = "saved" /\ tpc' = "done" /\ modelFile = model)
           /\ (tpc' = "done" /\ tpc # "done") => tpc = "saved"
           /\ (tpc' = "saved" /\ tpc # "saved") =>
                 (tpc = "evaluated" /\ modelFile' = model /\ model = "IsolationForest")
           /\ (tpc' = "evaluated" /\ tpc # "evaluated") => tpc = "fitted"
           /\ (tpc' = "fitted" /\ tpc # "fitted") => tpc = "loaded"
           /\ (tpc' = "loaded" /\ tpc # "loaded") => tpc = "idle"
           /\ (tpc' \in TrainStoppedEarly /\ tpc # tpc') =>
                 /\ tpc \in {"idle", "loaded", "fitted"}
                 /\ dataFile' = dataFile
                 /\ modelFile' = modelFile ]_vars
    /\ [](tpc \in {"loaded", "fitted", "evaluated", "saved", "crashed_fit", "crashed_eval"}
            => dataFile = df_full)

C10_Witness ==
    /\ tpc = "done"
    /\ modelFile = "IsolationForest"
    /\ \E i \in 1..Len(anomaly_scores) : ScoreOf(dataFile, i) = 1

====
